---- MODULE Spec2Model ----
(***************************************************************************)
(* Document analysis pipeline of dociq-backend: the rule-based risk        *)
(* detector (risk_analyzer.py), the rewrite and summary engines            *)
(* (rewrite_engine.py, summary_engine.py) and the request handlers that    *)
(* sequence them (main.py).                                                *)
(*                                                                         *)
(* Texts are TLA+ strings.  Offsets are 0-based and slices are half-open,  *)
(* as in Python.  Three characters of the model stand for Unicode          *)
(* characters that do not fit a module's character set:                    *)
(*   "#"  U+0130, capital I with dot above; str.lower() turns it into the  *)
(*        two characters "i" U+0307                                        *)
(*   "~"  U+0307, combining dot above                                      *)
(*   "^"  a lone surrogate such as U+D800; str.encode() rejects it         *)
(***************************************************************************)
EXTENDS Integers, Sequences, FiniteSets, TLC

VARIABLES
  text,        \* the text under analysis
  pc,          \* position of the operation in progress
  detected,    \* outcome of RiskAnalyzer.analyze: [raised, risks]
  blob,        \* response text of the rewrite collaborator
  expected,    \* expected_count handed to _parse_rewrites
  parsed,      \* list returned by _parse_rewrites
  handler,     \* the request handler that runs
  summary_model, \* SummaryEngine.model is set (the collaborator is configured)
  rewrite_model, \* RewriteEngine.model is set
  risks,       \* the handler's risk list
  summary,     \* value returned by generate_summary
  clauses,     \* argument of rewrite_clauses
  rewrites,    \* value returned by rewrite_clauses: [none, items]
  calls,       \* the generate_content calls made, in order
  database,    \* the analyses committed
  response,    \* what the handler returned to its caller
  requests,    \* the upload requests in progress: the locals of each handler
  files,       \* the files of UPLOAD_DIR, by name
  running      \* the request that holds the event loop

detectVars == <<detected>>
parseVars == <<blob, expected, parsed>>
engineVars == <<summary_model, rewrite_model, summary, clauses, rewrites, calls>>
handlerVars == <<handler, risks, database, response>>
uploadVars == <<requests, files, running>>

vars == <<text, pc, detectVars, parseVars, engineVars, handlerVars, uploadVars>>

(***************************************************************************)
(* The pattern catalog.  A pattern is an alternation; every alternative is *)
(* a sequence of literals joined by ".*".                                  *)
(***************************************************************************)
RISK_PATTERNS ==
  <<
    [name |-> "Unlimited Liability", severity |-> "high",
     pattern |-> << <<"unlimited liability">>,
                  <<"without limitation">>,
                  <<"no limit on damages">>,
                  <<"liable for all">>,
                  <<"full liability">> >>],
    [name |-> "Automatic Renewal", severity |-> "medium",
     pattern |-> << <<"automatically renew">>,
                  <<"auto-renew">>,
                  <<"automatic extension">>,
                  <<"renew automatically">> >>],
    [name |-> "Arbitration Clause", severity |-> "medium",
     pattern |-> << <<"binding arbitration">>,
                  <<"arbitration agreement">>,
                  <<"resolve", "arbitration">>,
                  <<"submit to arbitration">> >>],
    [name |-> "Waiver of Rights", severity |-> "high",
     pattern |-> << <<"waive", "rights">>,
                  <<"waiver of">>,
                  <<"give up", "rights">>,
                  <<"surrender", "rights">>,
                  <<"forfeit", "rights">> >>],
    [name |-> "Indemnification", severity |-> "high",
     pattern |-> << <<"shall indemnify">>,
                  <<"agree to indemnify">>,
                  <<"indemnify", "hold harmless">>,
                  <<"defend", "indemnify">> >>],
    [name |-> "Non-Compete Clause", severity |-> "high",
     pattern |-> << <<"non-compete">>,
                  <<"non compete">>,
                  <<"shall not compete">>,
                  <<"refrain from competing">>,
                  <<"prohibited from competing">> >>],
    [name |-> "Confidentiality Obligations", severity |-> "medium",
     pattern |-> << <<"confidential information">>,
                  <<"maintain confidentiality">>,
                  <<"non-disclosure">>,
                  <<"NDA">>,
                  <<"trade secrets">> >>],
    [name |-> "Termination Penalties", severity |-> "high",
     pattern |-> << <<"early termination", "fee">>,
                  <<"penalty", "termination">>,
                  <<"liquidated damages">>,
                  <<"termination", "penalty">> >>],
    [name |-> "Intellectual Property Transfer", severity |-> "high",
     pattern |-> << <<"transfer", "intellectual property">>,
                  <<"assign", "IP">>,
                  <<"all rights", "belong">>,
                  <<"ownership", "work product">> >>],
    [name |-> "Unilateral Modification", severity |-> "high",
     pattern |-> << <<"modify", "at", "discretion">>,
                  <<"change", "without notice">>,
                  <<"reserve", "right", "modify">>,
                  <<"unilaterally", "change">> >>],
    [name |-> "Broad Disclaimers", severity |-> "medium",
     pattern |-> << <<"as is">>,
                  <<"without warranty">>,
                  <<"no warranties">>,
                  <<"disclaim", "warranties">>,
                  <<"all warranties", "disclaimed">> >>],
    [name |-> "Limitation of Liability", severity |-> "medium",
     pattern |-> << <<"limit", "liability">>,
                  <<"liability", "limited">>,
                  <<"not liable for">>,
                  <<"no liability">>,
                  <<"exclude", "liability">> >>],
    [name |-> "Assignment Rights", severity |-> "medium",
     pattern |-> << <<"may assign">>,
                  <<"right to assign">>,
                  <<"transfer", "agreement">>,
                  <<"assign", "rights">>,
                  <<"assignment of">> >>],
    [name |-> "Governing Law", severity |-> "low",
     pattern |-> << <<"governed by", "laws">>,
                  <<"jurisdiction", "shall be">>,
                  <<"exclusive jurisdiction">>,
                  <<"venue", "shall be">> >>],
    [name |-> "Entire Agreement", severity |-> "low",
     pattern |-> << <<"entire agreement">>,
                  <<"complete agreement">>,
                  <<"supersedes", "agreements">>,
                  <<"prior", "agreements", "void">> >>],
    [name |-> "Force Majeure", severity |-> "low",
     pattern |-> << <<"force majeure">>,
                  <<"act of god">>,
                  <<"beyond", "control">>,
                  <<"unforeseen circumstances">> >>],
    [name |-> "Payment Terms", severity |-> "medium",
     pattern |-> << <<"payment", "due">>,
                  <<"non-refundable">>,
                  <<"no refund">>,
                  <<"refund", "not", "available">>,
                  <<"all sales final">> >>],
    [name |-> "Data Collection", severity |-> "medium",
     pattern |-> << <<"collect", "data">>,
                  <<"personal information">>,
                  <<"user data">>,
                  <<"tracking">>,
                  <<"cookies">>,
                  <<"analytics">> >>],
    [name |-> "Class Action Waiver", severity |-> "high",
     pattern |-> << <<"waive", "class action">>,
                  <<"no class action">>,
                  <<"class action", "waived">>,
                  <<"individual basis only">> >>],
    [name |-> "Severability", severity |-> "low",
     pattern |-> << <<"severability">>,
                  <<"severable">>,
                  <<"invalid", "provision">>,
                  <<"unenforceable", "provision">> >>],
    [name |-> "Notice Requirements", severity |-> "low",
     pattern |-> << <<"written notice">>,
                  <<"notice", "required">>,
                  <<"provide", "notice">>,
                  <<"notify", "in writing">> >>],
    [name |-> "Survival Clauses", severity |-> "medium",
     pattern |-> << <<"survive", "termination">>,
                  <<"survive expiration">>,
                  <<"obligations", "continue">>,
                  <<"remain in effect">> >>]
  >>

DottedI == "#"
CombiningDot == "~"
Surrogate == "^"

ContextRadius == 100

Min(a, b) == IF a < b THEN a ELSE b
Max(a, b) == IF a > b THEN a ELSE b

SetMax(S) == CHOOSE x \in S : \A y \in S : y <= x
SetMin(S) == CHOOSE x \in S : \A y \in S : x <= y

\* s[a:b] of Python for 0 <= a, 0 <= b
Slice(s, a, b) ==
  LET hi == Min(b, Len(s))
  IN IF a >= hi THEN "" ELSE SubSeq(s, a + 1, hi)

CharAt(s, i) == SubSeq(s, i, i)

\* str.lower() of one character
LowerChar(c) ==
  CASE c = "A" -> "a" [] c = "B" -> "b" [] c = "C" -> "c" [] c = "D" -> "d"
    [] c = "E" -> "e" [] c = "F" -> "f" [] c = "G" -> "g" [] c = "H" -> "h"
    [] c = "I" -> "i" [] c = "J" -> "j" [] c = "K" -> "k" [] c = "L" -> "l"
    [] c = "M" -> "m" [] c = "N" -> "n" [] c = "O" -> "o" [] c = "P" -> "p"
    [] c = "Q" -> "q" [] c = "R" -> "r" [] c = "S" -> "s" [] c = "T" -> "t"
    [] c = "U" -> "u" [] c = "V" -> "v" [] c = "W" -> "w" [] c = "X" -> "x"
    [] c = "Y" -> "y" [] c = "Z" -> "z"
    [] c = DottedI -> "i" \o CombiningDot
    [] OTHER -> c

\* str.lower(): character by character (the text is halved to keep the
\* evaluation shallow)
RECURSIVE Lower(_)
Lower(s) ==
  IF s = "" THEN ""
  ELSE IF Len(s) = 1 THEN LowerChar(s)
  ELSE LET h == Len(s) \div 2
       IN Lower(SubSeq(s, 1, h)) \o Lower(SubSeq(s, h + 1, Len(s)))

\* the one-character case folding re.IGNORECASE compares with
FoldChar(c) == IF c = DottedI THEN "i" ELSE LowerChar(c)

RECURSIVE Fold(_)
Fold(s) ==
  IF s = "" THEN ""
  ELSE IF Len(s) = 1 THEN FoldChar(s)
  ELSE LET h == Len(s) \div 2
       IN Fold(SubSeq(s, 1, h)) \o Fold(SubSeq(s, h + 1, Len(s)))

IsSpace(c) == c \in {" ", "\n", "\t"}

\* str.strip(): from the first to the last character that is not white space
Strip(s) ==
  LET K == {i \in 1..Len(s) : ~IsSpace(CharAt(s, i))}
  IN IF K = {} THEN "" ELSE SubSeq(s, SetMin(K), SetMax(K))

Contains(hay, needle) ==
  \E i \in 1..(Len(hay) - Len(needle) + 1) :
    SubSeq(hay, i, i + Len(needle) - 1) = needle

(***************************************************************************)
(* re.split(r'[.!?]\s+', text)                                             *)
(***************************************************************************)
IsBoundary(s, i) ==
  /\ i < Len(s)
  /\ CharAt(s, i) \in {".", "!", "?"}
  /\ IsSpace(CharAt(s, i + 1))

\* the first position from i on that holds no white space
SkipSpace(s, i) ==
  LET K == {j \in i..Len(s) : ~IsSpace(CharAt(s, j))}
  IN IF K = {} THEN Len(s) + 1 ELSE SetMin(K)

RECURSIVE SplitFrom(_, _)
SplitFrom(s, from) ==
  LET B == {i \in from..Len(s) : IsBoundary(s, i)}
  IN IF B = {} THEN << Slice(s, from - 1, Len(s)) >>
     ELSE LET b == SetMin(B)
          IN << Slice(s, from - 1, b - 1) >> \o SplitFrom(s, SkipSpace(s, b + 1))

SplitSentences(s) == SplitFrom(s, 1)

(***************************************************************************)
(* re.finditer(pattern, text_lower, re.IGNORECASE)                         *)
(***************************************************************************)
\* Under IGNORECASE two characters match when their case foldings are equal:
\* the pattern is folded once, when it is compiled, and the subject once per
\* scan, and the literals are then compared as they stand.
FoldAlts(alts) ==
  [a \in 1..Len(alts) |-> [k \in 1..Len(alts[a]) |-> Fold(alts[a][k])]]

CompiledPatterns == [n \in 1..Len(RISK_PATTERNS) |-> FoldAlts(RISK_PATTERNS[n].pattern)]

\* a literal compared over one character too many
LitAtOffByOne(lit, t, i) ==
  /\ i + Len(lit) <= Len(t)
  /\ SubSeq(t, i, i + Len(lit)) = lit

LitAt(lit, t, i) ==
  /\ i + Len(lit) - 1 <= Len(t)
  /\ SubSeq(t, i, i + Len(lit) - 1) = lit

\* "." matches every character but a newline
NoNewline(t, from, to) == \A q \in from..(to - 1) : CharAt(t, q) # "\n"

\* Pieces k.. of an alternative, each reached through a greedy ".*" from pos.
\* The value is the position after the match, 0 when there is none.
RECURSIVE MatchRest(_, _, _, _)
MatchRest(pieces, k, t, pos) ==
  IF k > Len(pieces) THEN pos
  ELSE LET lit == pieces[k]
           J == {j \in pos..(Len(t) - Len(lit) + 1) :
                   /\ NoNewline(t, pos, j)
                   /\ LitAt(lit, t, j)
                   /\ MatchRest(pieces, k + 1, t, j + Len(lit)) # 0}
       IN IF J = {} THEN 0
          ELSE MatchRest(pieces, k + 1, t, SetMax(J) + Len(lit))

MatchAlt(pieces, t, i) ==
  IF LitAt(pieces[1], t, i) THEN MatchRest(pieces, 2, t, i + Len(pieces[1])) ELSE 0

\* the alternatives are tried in order; the first that matches at i wins
MatchPattern(alts, t, i) ==
  LET A == {a \in 1..Len(alts) : MatchAlt(alts[a], t, i) # 0}
  IN IF A = {} THEN 0 ELSE MatchAlt(alts[SetMin(A)], t, i)

\* the matches from position `from` on, leftmost first, not overlapping,
\* as <<start, end>> in 0-based half-open offsets of t
RECURSIVE FindIter(_, _, _)
FindIter(alts, t, from) ==
  LET S == {i \in from..Len(t) : MatchPattern(alts, t, i) # 0}
  IN IF S = {} THEN << >>
     ELSE LET i == SetMin(S)
              e == MatchPattern(alts, t, i)
          IN << <<i - 1, e - 1>> >> \o FindIter(alts, t, e)

(***************************************************************************)
(* RiskAnalyzer.analyze                                                    *)
(***************************************************************************)
\* the sentence that replaces the window: the first one, in document order,
\* whose lowercased text contains the matched span
SentenceContext(sentences, group0, window) ==
  LET K == {k \in 1..Len(sentences) : Contains(Lower(sentences[k]), group0)}
  IN IF K = {} THEN window ELSE Strip(sentences[SetMin(K)])

\* str.encode() raises UnicodeEncodeError on a lone surrogate
Encodable(s) == ~Contains(s, Surrogate)

\* a fingerprint of the clause alone, the pattern name left out
FingerprintOfClause(name, context) == context

\* hashlib.md5(f"{name}:{context}".encode()).hexdigest()[:12]; the digest is
\* taken to be free of collisions, so it is represented by the digested text
Fingerprint(name, context) == name \o ":" \o context

MakeRisk(p, t, tl, sentences, m) ==
  LET match_start == m[1]
      match_end == m[2]
      group0 == Slice(tl, match_start, match_end)
      context_start == Max(0, match_start - ContextRadius)
      context_end == Min(Len(t), match_end + ContextRadius)
      window == Strip(Slice(t, context_start, context_end))
      context == SentenceContext(sentences, group0, window)
  IN [id |-> Fingerprint(p.name, context),
      clause |-> context,
      risk_type |-> p.name,
      severity |-> p.severity,
      original_text |-> group0,
      start_position |-> match_start,
      end_position |-> match_end]

HasId(list, id) == \E k \in 1..Len(list) : list[k].id = id

\* the append without the test for a risk of the same id
AppendRiskUnchecked(list, risk) == Append(list, risk)

\* lines 192-193: a risk is appended unless one with its id is there already
AppendRisk(list, risk) ==
  IF ~HasId(list, risk.id) THEN Append(list, risk) ELSE list

RECURSIVE AddMatches(_, _, _, _, _, _, _)
AddMatches(acc, p, t, tl, sentences, ms, k) ==
  IF acc.raised \/ k > Len(ms) THEN acc
  ELSE LET risk == MakeRisk(p, t, tl, sentences, ms[k])
       IN IF ~Encodable(risk.clause)
          THEN [raised |-> TRUE, risks |-> acc.risks]
          ELSE AddMatches([raised |-> FALSE, risks |-> AppendRisk(acc.risks, risk)],
                          p, t, tl, sentences, ms, k + 1)

RECURSIVE ScanPatterns(_, _, _, _, _, _)
ScanPatterns(acc, t, tl, tf, sentences, n) ==
  IF acc.raised \/ n > Len(RISK_PATTERNS) THEN acc
  ELSE ScanPatterns(
         AddMatches(acc, RISK_PATTERNS[n], t, tl, sentences,
                    FindIter(CompiledPatterns[n], tf, 1), 1),
         t, tl, tf, sentences, n + 1)

severity_order(s) == CASE s = "high" -> 0 [] s = "medium" -> 1 [] s = "low" -> 2

\* an insertion that puts a risk before the list of its own severity
RECURSIVE InsertSortedUnstable(_, _)
InsertSortedUnstable(sorted, r) ==
  IF sorted = << >> THEN << r >>
  ELSE IF severity_order(sorted[Len(sorted)].severity) < severity_order(r.severity)
       THEN Append(sorted, r)
       ELSE Append(InsertSortedUnstable(SubSeq(sorted, 1, Len(sorted) - 1), r),
                   sorted[Len(sorted)])

\* list.sort(key=...): stable, equal keys keep their order
RECURSIVE InsertSorted(_, _)
InsertSorted(sorted, r) ==
  IF sorted = << >> THEN << r >>
  ELSE IF severity_order(sorted[Len(sorted)].severity) <= severity_order(r.severity)
       THEN Append(sorted, r)
       ELSE Append(InsertSorted(SubSeq(sorted, 1, Len(sorted) - 1), r),
                   sorted[Len(sorted)])

RECURSIVE SortBySeverity(_)
SortBySeverity(list) ==
  IF list = << >> THEN << >>
  ELSE InsertSorted(SortBySeverity(SubSeq(list, 1, Len(list) - 1)),
                    list[Len(list)])

\* [raised |-> TRUE] stands for an exception leaving analyze
analyze(t) ==
  LET tl == Lower(t)
      sentences == SplitSentences(t)
      found == ScanPatterns([raised |-> FALSE, risks |-> << >>],
                            t, tl, Fold(tl), sentences, 1)
  IN IF found.raised THEN [raised |-> TRUE, risks |-> << >>]
     ELSE [raised |-> FALSE, risks |-> SortBySeverity(found.risks)]

(***************************************************************************)
(* Inputs of the detector                                                  *)
(***************************************************************************)
MaxFrags == 3

Fragments ==
  {"as is", "NDA", "assign", "IP", "severable", ". ", "\n", DottedI, Surrogate}

JuryText ==
  "This agreement provides for binding arbitration and the parties waive any right to a jury trial."

LongText ==
  "The vendor may assign all IP. The software is provided as is. Keep the NDA. Each invalid clause is severable."

\* one phrase of the catalog in two sentences
TwiceText == "The goods are sold as is. Services are also provided as is."

RECURSIVE Concat(_)
Concat(fs) == IF fs = << >> THEN "" ELSE Head(fs) \o Concat(Tail(fs))

FragTexts == {Concat(fs) : fs \in UNION {[1..n -> Fragments] : n \in 0..MaxFrags}}

Texts == FragTexts \cup {JuryText, LongText, TwiceText}

NoResult == [raised |-> FALSE, risks |-> << >>]

None == [none |-> TRUE, items |-> << >>]
List(items) == [none |-> FALSE, items |-> items]

NoResponse == [status |-> 0]

\* the variables an operation does not use, as they are before any request
IdleParse == blob = "" /\ expected = 0 /\ parsed = << >>
IdleDetect == detected = NoResult
IdleEngines ==
  /\ summary_model = FALSE
  /\ rewrite_model = FALSE
  /\ summary = ""
  /\ clauses = << >>
  /\ rewrites = None
  /\ calls = << >>
IdleHandler ==
  /\ handler = "none"
  /\ risks = << >>
  /\ database = << >>
  /\ response = NoResponse
NoOne == "none"
IdleUpload ==
  /\ requests = << >>
  /\ files = << >>
  /\ running = NoOne

InitDetect ==
  /\ text \in Texts
  /\ pc = "start"
  /\ detected = NoResult
  /\ IdleParse
  /\ IdleEngines
  /\ IdleHandler
  /\ IdleUpload

Analyze ==
  /\ pc = "start"
  /\ detected' = analyze(text)
  /\ pc' = "analyzed"
  /\ UNCHANGED <<text, parseVars, engineVars, handlerVars>>
  /\ UNCHANGED uploadVars

NextDetect == Analyze

SpecDetect == InitDetect /\ [][NextDetect]_vars

(***************************************************************************)
(* RewriteEngine._parse_rewrites                                           *)
(***************************************************************************)
Placeholder == "Unable to generate rewrite for this clause."

IsDigit(c) == c \in {"0", "1", "2", "3", "4", "5", "6", "7", "8", "9"}

\* the first position from i on that holds no digit
SkipDigits(s, i) ==
  LET K == {j \in i..Len(s) : ~IsDigit(CharAt(s, j))}
  IN IF K = {} THEN Len(s) + 1 ELSE SetMin(K)

MarkerWord == "REWRITE "

\* r'REWRITE \d+:' at position i: the position after it, 0 when it is not there
MarkerEnd(s, i) ==
  IF Slice(s, i - 1, i - 1 + Len(MarkerWord)) # MarkerWord THEN 0
  ELSE LET d == i + Len(MarkerWord)
           e == SkipDigits(s, d)
       IN IF e > d /\ e <= Len(s) /\ CharAt(s, e) = ":" THEN e + 1 ELSE 0

\* re.split(r'REWRITE \d+:', response_text)
RECURSIVE SplitMarkers(_, _)
SplitMarkers(s, from) ==
  LET M == {i \in from..Len(s) : MarkerEnd(s, i) # 0}
  IN IF M = {} THEN << Slice(s, from - 1, Len(s)) >>
     ELSE LET i == SetMin(M)
          IN << Slice(s, from - 1, i - 1) >> \o SplitMarkers(s, MarkerEnd(s, i))

\* lines 80-83: the trimmed parts that are not empty
RECURSIVE NonEmptyStripped(_)
NonEmptyStripped(parts) ==
  IF parts = << >> THEN << >>
  ELSE LET rewrite == Strip(Head(parts))
       IN IF rewrite # "" THEN << rewrite >> \o NonEmptyStripped(Tail(parts))
          ELSE NonEmptyStripped(Tail(parts))

\* lines 77-87: the rewrites recovered from the response
RecoveredRewrites(response_text) ==
  LET parts == SplitMarkers(response_text, 1)
      list == NonEmptyStripped(Tail(parts))
  IN IF Len(list) = 0 /\ Strip(response_text) # ""
     THEN << Strip(response_text) >>
     ELSE list

\* lines 90-91
RECURSIVE Pad(_, _)
Pad(list, expected_count) ==
  IF Len(list) < expected_count
  THEN Pad(Append(list, Placeholder), expected_count)
  ELSE list

\* the list returned as it stands, without the cut to expected_count
ParseRewritesUncut(response_text, expected_count) ==
  Pad(RecoveredRewrites(response_text), expected_count)

\* expected_count >= 0: list[:expected_count] is the first expected_count
parse_rewrites(response_text, expected_count) ==
  LET list == Pad(RecoveredRewrites(response_text), expected_count)
  IN SubSeq(list, 1, Min(expected_count, Len(list)))

MaxBlobFrags == 4
MaxExpected == 3

BlobFragments == {"REWRITE 1:", "REWRITE 2:", "REWRITE 13:", "REWRITE :", " A", "B "}

Blobs == {Concat(fs) : fs \in UNION {[1..n -> BlobFragments] : n \in 0..MaxBlobFrags}}

InitParse ==
  /\ blob \in Blobs
  /\ expected \in 0..MaxExpected
  /\ parsed = << >>
  /\ pc = "start"
  /\ text = ""
  /\ IdleDetect
  /\ IdleEngines
  /\ IdleHandler
  /\ IdleUpload

ParseRewrites ==
  /\ pc = "start"
  /\ parsed' = parse_rewrites(blob, expected)
  /\ pc' = "parsed"
  /\ UNCHANGED <<text, detectVars, blob, expected, engineVars, handlerVars>>
  /\ UNCHANGED uploadVars

NextParse == ParseRewrites

SpecParse == InitParse /\ [][NextParse]_vars

(***************************************************************************)
(* The generation collaborator: model.generate_content(prompt) returns a   *)
(* response with a text, or raises.                                        *)
(***************************************************************************)
Ok(t) == [kind |-> "ok", text |-> t]
Raise(reason) == [kind |-> "raise", text |-> reason]

\* generate_content is called with no timeout: a call that is not answered
\* does not come back
Hang == [kind |-> "hang", text |-> ""]

FailureReasons == {"429 quota exceeded", "connection reset"}

SampleBlobs ==
  {"REWRITE 1: A REWRITE 2: B REWRITE 3: C",
   "REWRITE 1: A REWRITE 2: B",
   "REWRITE 1: REWRITE 2: B",
   "Here you are: REWRITE 1: A",
   "I cannot help with that.",
   ""}

RewriteOutcomes == {Ok(b) : b \in SampleBlobs} \cup {Raise(r) : r \in FailureReasons}

SummaryOutcomes ==
  {Ok(" This contract binds two parties. \n"), Ok("")} \cup {Raise(r) : r \in FailureReasons}

(***************************************************************************)
(* RewriteEngine.rewrite_clauses                                           *)
(***************************************************************************)
\* the call of line 42, as it is logged: the prompt lists the clauses in
\* order; outcome is what came back
RewriteCall(cs, outcome) == [to |-> "rewrite", clauses |-> cs, outcome |-> outcome]

\* rewrite_clauses with the test for an empty list left out
RewriteClausesNoEmptyTest(configured, cs, outcome) ==
  IF ~configured THEN [value |-> None, calls |-> << >>]
  ELSE IF outcome.kind = "raise"
       THEN [value |-> None, calls |-> << RewriteCall(cs, outcome) >>]
       ELSE [value |-> List(parse_rewrites(outcome.text, Len(cs))),
             calls |-> << RewriteCall(cs, outcome) >>]

\* rewrite_clauses calling the collaborator a second time when it raised
RewriteClausesRetry(configured, cs, outcome) ==
  IF ~configured THEN [value |-> None, calls |-> << >>]
  ELSE IF cs = << >> THEN [value |-> List(<< >>), calls |-> << >>]
  ELSE IF outcome.kind = "raise"
       THEN [value |-> None,
             calls |-> << RewriteCall(cs, outcome), RewriteCall(cs, outcome) >>]
       ELSE [value |-> List(parse_rewrites(outcome.text, Len(cs))),
             calls |-> << RewriteCall(cs, outcome) >>]

\* rewrite_clauses answering a failed call with placeholders instead of None
RewriteClausesPlaceholders(configured, cs, outcome) ==
  IF ~configured THEN [value |-> None, calls |-> << >>]
  ELSE IF cs = << >> THEN [value |-> List(<< >>), calls |-> << >>]
  ELSE IF outcome.kind = "raise"
       THEN [value |-> List(Pad(<< >>, Len(cs))),
             calls |-> << RewriteCall(cs, outcome) >>]
       ELSE [value |-> List(parse_rewrites(outcome.text, Len(cs))),
             calls |-> << RewriteCall(cs, outcome) >>]

\* the value returned and the collaborator calls made; outcome is what
\* generate_content does if it is called
rewrite_clauses(configured, cs, outcome) ==
  IF ~configured THEN [value |-> None, calls |-> << >>]
  ELSE IF cs = << >> THEN [value |-> List(<< >>), calls |-> << >>]
  ELSE IF outcome.kind = "raise"
       THEN [value |-> None, calls |-> << RewriteCall(cs, outcome) >>]
       ELSE [value |-> List(parse_rewrites(outcome.text, Len(cs))),
             calls |-> << RewriteCall(cs, outcome) >>]

MaxClauses == 3

ClauseTexts == {"as is", "NDA"}

ClauseLists == UNION {[1..n -> ClauseTexts] : n \in 0..MaxClauses}

InitRewrite ==
  /\ rewrite_model \in BOOLEAN
  /\ clauses \in ClauseLists
  /\ pc = "start"
  /\ text = ""
  /\ summary_model = FALSE
  /\ summary = ""
  /\ rewrites = None
  /\ calls = << >>
  /\ IdleDetect
  /\ IdleParse
  /\ IdleHandler
  /\ IdleUpload

RewriteClauses ==
  /\ pc = "start"
  /\ \E outcome \in RewriteOutcomes :
       LET r == rewrite_clauses(rewrite_model, clauses, outcome)
       IN /\ rewrites' = r.value
          /\ calls' = calls \o r.calls
  /\ pc' = "rewritten"
  /\ UNCHANGED <<text, detectVars, parseVars, handlerVars,
                 summary_model, rewrite_model, summary, clauses>>
  /\ UNCHANGED uploadVars

NextRewrite == RewriteClauses

SpecRewrite == InitRewrite /\ [][NextRewrite]_vars

(***************************************************************************)
(* SummaryEngine.generate_summary                                          *)
(***************************************************************************)
\* line 34, without the warning sign that opens the string
NotConfiguredAdvisory ==
  "Gemini API key not configured. Summary generation requires GEMINI_API_KEY environment variable."

TooShortAdvisory == "Document is too short to summarize."

SummaryMinLen == 50
SummaryPreviewLen == 8000

\* the call of line 55, as it is logged, with what came back
SummaryCall(t, outcome) ==
  [to |-> "summary", text_preview |-> Slice(t, 0, SummaryPreviewLen),
   outcome |-> outcome]

\* generate_summary measuring the text as it is, not trimmed
GenerateSummaryUntrimmed(configured, t, outcome) ==
  IF ~configured THEN [value |-> NotConfiguredAdvisory, calls |-> << >>, raised |-> FALSE]
  ELSE IF t = "" \/ Len(t) < SummaryMinLen
       THEN [value |-> TooShortAdvisory, calls |-> << >>, raised |-> FALSE]
  ELSE IF outcome.kind = "raise"
       THEN [value |-> "Unable to generate summary: " \o outcome.text,
             calls |-> << SummaryCall(t, outcome) >>, raised |-> FALSE]
       ELSE [value |-> Strip(outcome.text), calls |-> << SummaryCall(t, outcome) >>,
             raised |-> FALSE]

\* generate_summary letting the collaborator's exception through
GenerateSummaryUncaught(configured, t, outcome) ==
  IF ~configured THEN [value |-> NotConfiguredAdvisory, calls |-> << >>, raised |-> FALSE]
  ELSE IF t = "" \/ Len(Strip(t)) < SummaryMinLen
       THEN [value |-> TooShortAdvisory, calls |-> << >>, raised |-> FALSE]
  ELSE IF outcome.kind = "raise"
       THEN [value |-> "", calls |-> << SummaryCall(t, outcome) >>, raised |-> TRUE]
       ELSE [value |-> Strip(outcome.text), calls |-> << SummaryCall(t, outcome) >>,
             raised |-> FALSE]

\* the value returned, the collaborator calls made, and whether an exception
\* left the function
generate_summary(configured, t, outcome) ==
  IF ~configured THEN [value |-> NotConfiguredAdvisory, calls |-> << >>, raised |-> FALSE]
  ELSE IF t = "" \/ Len(Strip(t)) < SummaryMinLen
       THEN [value |-> TooShortAdvisory, calls |-> << >>, raised |-> FALSE]
  ELSE IF outcome.kind = "raise"
       THEN [value |-> "Unable to generate summary: " \o outcome.text,
             calls |-> << SummaryCall(t, outcome) >>, raised |-> FALSE]
       ELSE [value |-> Strip(outcome.text), calls |-> << SummaryCall(t, outcome) >>,
             raised |-> FALSE]

MaxSlack == 2
MaxMargin == 2

RECURSIVE Repeat(_, _)
Repeat(c, n) ==
  IF n = 0 THEN ""
  ELSE IF n = 1 THEN c
  ELSE Repeat(c, n \div 2) \o Repeat(c, n - (n \div 2))

\* texts of every trimmed length up to a little over the threshold, with
\* white space around them
SummaryTexts ==
  {Repeat(" ", l) \o Repeat("x", n) \o Repeat("\n", r) :
     l \in 0..MaxMargin, r \in 0..MaxMargin, n \in 0..(SummaryMinLen + MaxSlack)}

InitSummary ==
  /\ summary_model \in BOOLEAN
  /\ text \in SummaryTexts
  /\ pc = "start"
  /\ rewrite_model = FALSE
  /\ summary = ""
  /\ clauses = << >>
  /\ rewrites = None
  /\ calls = << >>
  /\ IdleDetect
  /\ IdleParse
  /\ IdleHandler
  /\ IdleUpload

GenerateSummary ==
  /\ pc = "start"
  /\ \E outcome \in SummaryOutcomes :
       LET r == generate_summary(summary_model, text, outcome)
       IN /\ summary' = r.value
          /\ calls' = calls \o r.calls
          /\ pc' = IF r.raised THEN "raised" ELSE "summarized"
  /\ UNCHANGED <<text, detectVars, parseVars, handlerVars,
                 summary_model, rewrite_model, clauses, rewrites>>
  /\ UNCHANGED uploadVars

NextSummary == GenerateSummary

SpecSummary == InitSummary /\ [][NextSummary]_vars

(***************************************************************************)
(* The handlers analyze_text and demo_analyze_text of main.py.  A request  *)
(* goes through detection, summarization, rewriting with the merge, and,   *)
(* in analyze_text, the commit of the document and its analysis.  An       *)
(* exception that leaves a step is caught at line 283 (445) and answered   *)
(* with status 500.                                                        *)
(***************************************************************************)
Handlers == {"analyze_text", "demo_analyze_text"}

RequestTexts ==
  {JuryText, LongText, "as is. NDA", "severable", "", "NDA" \o Surrogate,
   "The NDA stays in force as is" \o Repeat(" ", SummaryMinLen)}

\* raise HTTPException(status_code=500, detail=str(e))
Failed(detail) == [status |-> 500, detail |-> detail]

EncodeError == "'utf-8' codec can't encode character: surrogates not allowed"
CommitError == "database is locked"

Init ==
  /\ handler \in Handlers
  /\ text \in RequestTexts
  /\ summary_model \in BOOLEAN
  /\ rewrite_model \in BOOLEAN
  /\ pc = "start"
  /\ risks = << >>
  /\ summary = ""
  /\ clauses = << >>
  /\ rewrites = None
  /\ calls = << >>
  /\ database = << >>
  /\ response = NoResponse
  /\ IdleDetect
  /\ IdleParse
  /\ IdleUpload

\* analyze over the request texts, evaluated once
Analyzed == [t \in RequestTexts |-> analyze(t)]

\* risks = risk_analyzer.analyze(text)
Detect ==
  /\ pc = "start"
  /\ detected' = Analyzed[text]
  /\ IF detected'.raised
     THEN /\ pc' = "done"
          /\ response' = Failed(EncodeError)
          /\ UNCHANGED risks
     ELSE /\ pc' = "detected"
          /\ risks' = detected'.risks
          /\ UNCHANGED response
  /\ UNCHANGED <<text, parseVars, engineVars, handler, database>>
  /\ UNCHANGED uploadVars

\* summary = summary_engine.generate_summary(text)
Summarize ==
  /\ pc = "detected"
  /\ \E outcome \in SummaryOutcomes :
       LET r == generate_summary(summary_model, text, outcome)
       IN /\ calls' = calls \o r.calls
          /\ IF r.raised
             THEN /\ pc' = "done"
                  /\ response' = Failed(outcome.text)
                  /\ UNCHANGED summary
             ELSE /\ pc' = "summarized"
                  /\ summary' = r.value
                  /\ UNCHANGED response
  /\ UNCHANGED <<text, detectVars, parseVars, handler, risks, database,
                 summary_model, rewrite_model, clauses, rewrites>>
  /\ UNCHANGED uploadVars

\* generate_summary is waiting in generate_content, which does not return; the
\* handler has no step to take from here
SummarizeHangs ==
  /\ pc = "detected"
  /\ LET r == generate_summary(summary_model, text, Hang)
     IN /\ r.calls # << >>
        /\ calls' = calls \o r.calls
  /\ pc' = "summary_pending"
  /\ UNCHANGED <<text, detectVars, parseVars, handlerVars,
                 summary_model, rewrite_model, summary, clauses, rewrites>>
  /\ UNCHANGED uploadVars

ClausesOf(list) == [i \in 1..Len(list) |-> list[i].clause]

\* the merge counting the rewrites from 0 and the risks from 1
MergeShifted(list, value) ==
  IF value.none \/ value.items = << >> THEN list
  ELSE [i \in 1..Len(list) |->
          IF i < Len(value.items)
          THEN list[i] @@ [suggested_rewrite |-> value.items[i + 1]]
          ELSE list[i]]

\* lines 248-251: rewrite i is attached to risk i
Merge(list, value) ==
  IF value.none \/ value.items = << >> THEN list
  ELSE [i \in 1..Len(list) |->
          IF i <= Len(value.items)
          THEN list[i] @@ [suggested_rewrite |-> value.items[i]]
          ELSE list[i]]

\* lines 244-253: no risk, no call
SkipRewrite ==
  /\ pc = "summarized"
  /\ risks = << >>
  /\ pc' = "rewritten"
  /\ UNCHANGED <<text, detectVars, parseVars, engineVars, handlerVars>>
  /\ UNCHANGED uploadVars

Rewrite ==
  /\ pc = "summarized"
  /\ risks # << >>
  /\ \E outcome \in RewriteOutcomes :
       LET r == rewrite_clauses(rewrite_model, ClausesOf(risks), outcome)
       IN /\ clauses' = ClausesOf(risks)
          /\ blob' = IF r.calls # << >> /\ outcome.kind = "ok" THEN outcome.text ELSE blob
          /\ rewrites' = r.value
          /\ calls' = calls \o r.calls
          /\ risks' = Merge(risks, r.value)
  /\ pc' = "rewritten"
  /\ UNCHANGED <<text, detectVars, expected, parsed, handler, database, response,
                 summary_model, rewrite_model, summary>>
  /\ UNCHANGED uploadVars

\* rewrite_clauses is waiting in generate_content, which does not return
RewriteHangs ==
  /\ pc = "summarized"
  /\ risks # << >>
  /\ LET r == rewrite_clauses(rewrite_model, ClausesOf(risks), Hang)
     IN /\ r.calls # << >>
        /\ calls' = calls \o r.calls
  /\ clauses' = ClausesOf(risks)
  /\ pc' = "rewrite_pending"
  /\ UNCHANGED <<text, detectVars, parseVars, handlerVars,
                 summary_model, rewrite_model, summary, rewrites>>
  /\ UNCHANGED uploadVars

\* lines 255-272: the document and its analysis are committed, or the
\* session raises
Persist ==
  /\ pc = "rewritten"
  /\ handler = "analyze_text"
  /\ \E committed \in BOOLEAN :
       IF committed
       THEN /\ database' = Append(database,
                                  [filename |-> "Text Input", original_text |-> text,
                                   summary |-> summary, risks |-> risks,
                                   rewrites |-> rewrites])
            /\ pc' = "persisted"
            /\ UNCHANGED response
       ELSE /\ pc' = "done"
            /\ response' = Failed(CommitError)
            /\ UNCHANGED database
  /\ UNCHANGED <<text, detectVars, parseVars, engineVars, handler, risks>>
  /\ UNCHANGED uploadVars

\* lines 274-281 and 435-442
Respond ==
  /\ \/ pc = "persisted" /\ handler = "analyze_text"
     \/ pc = "rewritten" /\ handler = "demo_analyze_text"
  /\ response' = [status |-> 200,
                  analysis_id |-> Len(database),
                  document_name |-> "Text Input",
                  text_length |-> Len(text),
                  risks_found |-> Len(risks),
                  risks |-> risks,
                  original_text |-> text]
  /\ pc' = "done"
  /\ UNCHANGED <<text, detectVars, parseVars, engineVars, handler, risks, database>>
  /\ UNCHANGED uploadVars

Next ==
  \/ Detect
  \/ Summarize
  \/ SummarizeHangs
  \/ SkipRewrite
  \/ Rewrite
  \/ RewriteHangs
  \/ Persist
  \/ Respond

Spec == Init /\ [][Next]_vars

\* the handler runs to its end on the event loop: a step it can take is taken
FairSpec == Spec /\ WF_vars(Next)

(***************************************************************************)
(* analyze_document and demo_analyze_document: uploads served concurrently *)
(* by one event loop.  A handler is a coroutine: it runs without           *)
(* interruption from one await to the next, and its only await is          *)
(* file.read().                                                            *)
(***************************************************************************)
UploadHandlers == {"analyze_document", "demo_analyze_document"}

RequestIds == {"r1", "r2"}

\* 10 * 1024 * 1024
MaxUploadSize == 10485760

AllowedTypes == {".pdf", ".docx", ".txt"}

\* Path(name).suffix.lower(): from the last dot on, unless the dot is the
\* first or the last character of the name
LastDot(name) == SetMax({0} \cup {i \in 1..Len(name) : CharAt(name, i) = "."})

Suffix(name) ==
  IF LastDot(name) > 1 /\ LastDot(name) < Len(name)
  THEN Lower(Slice(name, LastDot(name) - 1, Len(name)))
  ELSE ""

\* an uploaded body: what kind of bytes it is, len(content), and the text in it
TextContent(t) == [format |-> "text", size |-> Len(t), body |-> t]

Filenames == {"", "a.txt", "A.TXT", "a.exe", "b.pdf"}

Contents ==
  {TextContent("as is"),
   TextContent(" NDA. as is\n"),
   [format |-> "pdf", size |-> 900, body |-> "severable"],
   [format |-> "text", size |-> MaxUploadSize + 1, body |-> "as is"]}

Paths == Filenames \ {""}

NoFile == [format |-> "none", size |-> 0, body |-> ""]

Extracted(t) == [raised |-> FALSE, value |-> t]
ExtractError(e) == [raised |-> TRUE, value |-> e]

\* DocumentProcessor.extract_text on the file stored at path
extract_text(path, stored) ==
  IF stored = NoFile
  THEN ExtractError("[Errno 2] No such file or directory: 'uploads/" \o path \o "'")
  ELSE IF Suffix(path) = ".pdf"
  THEN IF stored.format = "pdf"
       THEN Extracted(Strip(stored.body \o "\n"))
       ELSE ExtractError("EOF marker not found")
  ELSE IF Suffix(path) \in {".docx", ".doc"}
  THEN IF stored.format = "docx"
       THEN Extracted(Strip(stored.body \o "\n"))
       ELSE ExtractError("File is not a zip file")
  ELSE IF Suffix(path) = ".txt"
  THEN IF stored.format = "text"
       THEN Extracted(Strip(stored.body))
       ELSE ExtractError("'utf-8' codec can't decode byte 0xe2: invalid continuation byte")
  ELSE ExtractError("Unsupported file format: " \o Suffix(path))

\* the texts extract_text can give, and analyze over them, evaluated once
UploadTexts ==
  {extract_text(f[1], f[2]).value :
     f \in {g \in Paths \X Contents : ~extract_text(g[1], g[2]).raised}}

AnalyzedUploads == [t \in UploadTexts |-> analyze(t)]

\* the locals of a handler that has not run yet
NewRequest(h, name, c) ==
  [handler |-> h, filename |-> name, content |-> c, pc |-> "start",
   file_path |-> "", text |-> "", risks |-> << >>, summary |-> "",
   rewrites |-> None, analysis_id |-> 0,
   response |-> NoResponse]

UploadRewriteOutcomes == {Ok("REWRITE 1: A REWRITE 2: B"), Raise("connection reset")}

InitUpload ==
  /\ requests \in [RequestIds -> {NewRequest(h, n, c) : h \in UploadHandlers,
                                                         n \in Filenames,
                                                         c \in Contents}]
  /\ files = [n \in Paths |-> NoFile]
  /\ running = NoOne
  /\ summary_model \in BOOLEAN
  /\ rewrite_model \in BOOLEAN
  /\ pc = "serving"
  /\ text = ""
  /\ summary = ""
  /\ clauses = << >>
  /\ rewrites = None
  /\ calls = << >>
  /\ IdleDetect
  /\ IdleParse
  /\ IdleHandler

\* the event loop runs request r when no coroutine is in the middle of a
\* stretch between two awaits, or r is
Turn(r) == running \in {NoOne, r}

\* a scheduler that may switch coroutines after every statement
YieldsAlways(step) == TRUE

\* the handler gives up the event loop at "content = await file.read()" only
Yields(step) == step = "reading"

\* request r goes on to step with its locals now
Goes(r, step, now) ==
  /\ requests' = [requests EXCEPT ![r] = [now EXCEPT !.pc = step]]
  /\ running' = IF step = "done" \/ Yields(step) THEN NoOne ELSE r

\* except Exception as e: the file at file_path is removed if it exists, and
\* HTTPException(500, detail=str(e)) is raised
Except(r, detail) ==
  LET now == requests[r]
  IN /\ files' = IF now.file_path # "" /\ files[now.file_path] # NoFile
                 THEN [files EXCEPT ![now.file_path] = NoFile]
                 ELSE files
     /\ Goes(r, "done", [now EXCEPT !.response = Failed(detail)])

UploadFrame ==
  UNCHANGED <<text, pc, detectVars, parseVars, handlerVars,
              summary_model, rewrite_model, summary, clauses, rewrites>>

\* lines 158-164: the handler starts, tests the filename and awaits the body
Receive(r) ==
  /\ Turn(r)
  /\ requests[r].pc = "start"
  /\ IF requests[r].filename = ""
     THEN Except(r, "400: No file provided")
     ELSE Goes(r, "reading", requests[r]) /\ UNCHANGED files
  /\ UNCHANGED <<calls, database>>
  /\ UploadFrame

\* lines 165-172: the size and the extension are tested
Validate(r) ==
  /\ Turn(r)
  /\ requests[r].pc = "reading"
  /\ IF requests[r].content.size > MaxUploadSize
     THEN Except(r, "413: File too large. Maximum size is 10MB")
     ELSE IF Suffix(requests[r].filename) \notin AllowedTypes
     THEN Except(r, "422: Unsupported file type. Allowed types: .pdf, .docx, .txt")
     ELSE Goes(r, "validated", requests[r]) /\ UNCHANGED files
  /\ UNCHANGED <<calls, database>>
  /\ UploadFrame

\* lines 176-178: the body is written to UPLOAD_DIR / file.filename
WriteFile(r) ==
  /\ Turn(r)
  /\ requests[r].pc = "validated"
  /\ files' = [files EXCEPT ![requests[r].filename] = requests[r].content]
  /\ Goes(r, "written", [requests[r] EXCEPT !.file_path = requests[r].filename])
  /\ UNCHANGED <<calls, database>>
  /\ UploadFrame

\* line 180: the text is extracted from the file that is at file_path now
ExtractText(r) ==
  /\ Turn(r)
  /\ requests[r].pc = "written"
  /\ LET ex == extract_text(requests[r].file_path, files[requests[r].file_path])
     IN IF ex.raised
        THEN Except(r, ex.value)
        ELSE Goes(r, "extracted", [requests[r] EXCEPT !.text = ex.value])
             /\ UNCHANGED files
  /\ UNCHANGED <<calls, database>>
  /\ UploadFrame

\* lines 182-183: the file at file_path is removed if it exists
RemoveFile(r) ==
  /\ Turn(r)
  /\ requests[r].pc = "extracted"
  /\ files' = [files EXCEPT ![requests[r].file_path] = NoFile]
  /\ Goes(r, "removed", requests[r])
  /\ UNCHANGED <<calls, database>>
  /\ UploadFrame

\* lines 185-198: detection, summary, rewrites and their merge
RunPipeline(r) ==
  /\ Turn(r)
  /\ requests[r].pc = "removed"
  /\ LET d == AnalyzedUploads[requests[r].text]
     IN IF d.raised
        THEN Except(r, EncodeError) /\ UNCHANGED calls
        ELSE \E so \in SummaryOutcomes, ro \in UploadRewriteOutcomes :
               LET s == generate_summary(summary_model, requests[r].text, so)
                   w == IF d.risks = << >>
                        THEN [value |-> None, calls |-> << >>]
                        ELSE rewrite_clauses(rewrite_model, ClausesOf(d.risks), ro)
               IN IF s.raised
                  THEN Except(r, so.text) /\ calls' = calls \o s.calls
                  ELSE /\ Goes(r, "rewritten",
                               [requests[r] EXCEPT !.risks = Merge(d.risks, w.value),
                                                   !.summary = s.value,
                                                   !.rewrites = w.value])
                       /\ calls' = calls \o s.calls \o w.calls
                       /\ UNCHANGED files
  /\ UNCHANGED database
  /\ UploadFrame

\* lines 200-217: the document and its analysis are committed, or the
\* session raises
PersistUpload(r) ==
  /\ Turn(r)
  /\ requests[r].pc = "rewritten"
  /\ requests[r].handler = "analyze_document"
  /\ \E committed \in BOOLEAN :
       IF committed
       THEN /\ database' = Append(database,
                                  [filename |-> requests[r].filename,
                                   original_text |-> requests[r].text,
                                   summary |-> requests[r].summary,
                                   risks |-> requests[r].risks,
                                   rewrites |-> requests[r].rewrites])
            /\ Goes(r, "persisted",
                    [requests[r] EXCEPT !.analysis_id = Len(database) + 1])
            /\ UNCHANGED files
       ELSE /\ Except(r, CommitError)
            /\ UNCHANGED database
  /\ UNCHANGED <<text, pc, detectVars, parseVars, handler, risks, response,
                 engineVars>>

\* lines 219-226 and 400-407
RespondUpload(r) ==
  /\ Turn(r)
  /\ \/ requests[r].pc = "persisted" /\ requests[r].handler = "analyze_document"
     \/ requests[r].pc = "rewritten" /\ requests[r].handler = "demo_analyze_document"
  /\ Goes(r, "done",
          [requests[r] EXCEPT
             !.response = [status |-> 200,
                           analysis_id |-> requests[r].analysis_id,
                           document_name |-> requests[r].filename,
                           text_length |-> Len(requests[r].text),
                           risks_found |-> Len(requests[r].risks),
                           risks |-> requests[r].risks,
                           original_text |-> requests[r].text]])
  /\ UNCHANGED <<files, calls, database>>
  /\ UploadFrame

NextUpload ==
  \E r \in RequestIds :
    \/ Receive(r)
    \/ Validate(r)
    \/ WriteFile(r)
    \/ ExtractText(r)
    \/ RemoveFile(r)
    \/ RunPipeline(r)
    \/ PersistUpload(r)
    \/ RespondUpload(r)

SpecUpload == InitUpload /\ [][NextUpload]_vars

(***************************************************************************)
(* Properties of RiskAnalyzer.analyze, checked under SpecDetect            *)
(***************************************************************************)
Returned == pc = "analyzed" /\ ~detected.raised

Risks == detected.risks

PatternIndex(name) == CHOOSE n \in 1..Len(RISK_PATTERNS) : RISK_PATTERNS[n].name = name

\* the matches of pattern n in the text under analysis
MatchesOf(n) == FindIter(CompiledPatterns[n], Fold(Lower(text)), 1)

RisksOfType(name) == {k \in 1..Len(Risks) : Risks[k].risk_type = name}

HasRisk(name, sev) ==
  \E k \in 1..Len(Risks) : Risks[k].risk_type = name /\ Risks[k].severity = sev

\* C1: the list analyze returns holds no two risks with the same id, and no
\* two risks with the same (risk type, clause text).
C1_UniqueIds ==
  Returned =>
    \A i, j \in 1..Len(Risks) :
      i # j => /\ Risks[i].id # Risks[j].id
               /\ <<Risks[i].risk_type, Risks[i].clause>>
                    # <<Risks[j].risk_type, Risks[j].clause>>

\* a pattern matched more often than it has risks in the result: a later
\* match was discarded
C1_Witness ==
  /\ Returned
  /\ \E n \in 1..Len(RISK_PATTERNS) :
       /\ RisksOfType(RISK_PATTERNS[n].name) # {}
       /\ Len(MatchesOf(n)) > Cardinality(RisksOfType(RISK_PATTERNS[n].name))

\* C2: the result is ordered by severity rank high=0, medium=1, low=2, and
\* risks of equal severity are in detection order: pattern-table order
\* first, then match position.
C2_SeverityOrder ==
  Returned =>
    \A i, j \in 1..Len(Risks) :
      i < j =>
        /\ severity_order(Risks[i].severity) <= severity_order(Risks[j].severity)
        /\ Risks[i].severity = Risks[j].severity =>
             \/ PatternIndex(Risks[i].risk_type) < PatternIndex(Risks[j].risk_type)
             \/ /\ PatternIndex(Risks[i].risk_type) = PatternIndex(Risks[j].risk_type)
                /\ Risks[i].start_position < Risks[j].start_position

\* the sort moved a risk in front of one of an earlier pattern, and two risks
\* of one severity stand in table order against their order in the text
C2_Witness ==
  /\ Returned
  /\ \E i, j \in 1..Len(Risks) :
       /\ i < j
       /\ PatternIndex(Risks[i].risk_type) > PatternIndex(Risks[j].risk_type)
  /\ \E i, j \in 1..Len(Risks) :
       /\ i < j
       /\ Risks[i].severity = Risks[j].severity
       /\ Risks[i].start_position > Risks[j].start_position

\* C3 as claimed: for the jury-trial sentence analyze returns an Arbitration
\* Clause risk of severity medium and a Waiver of Rights risk of severity high.
C3_JuryBothRisks ==
  (Returned /\ text = JuryText) =>
    /\ HasRisk("Arbitration Clause", "medium")
    /\ HasRisk("Waiver of Rights", "high")

\* C3 as amended: for the jury-trial sentence analyze returns an Arbitration
\* Clause risk of severity medium and no Waiver of Rights risk (the sentence
\* has "right", the matcher asks for "rights").
C3_JuryArbitrationOnly ==
  (pc = "analyzed" /\ text = JuryText) =>
    /\ ~detected.raised
    /\ HasRisk("Arbitration Clause", "medium")
    /\ RisksOfType("Waiver of Rights") = {}

C3_Witness == Returned /\ text = JuryText /\ Len(Risks) = 1

\* C4: every returned risk has 0 <= start < end <= len(text), and the
\* characters text[start:end], lowercased, are its matched span.
C4_OffsetsInOriginal ==
  Returned =>
    \A k \in 1..Len(Risks) :
      /\ 0 <= Risks[k].start_position
      /\ Risks[k].start_position < Risks[k].end_position
      /\ Risks[k].end_position <= Len(text)
      /\ Lower(Slice(text, Risks[k].start_position, Risks[k].end_position))
           = Risks[k].original_text

\* C5: analyze never raises; every pattern whose matches can all be
\* fingerprinted still has its risks in the result.
C5_NeverRaises ==
  pc = "analyzed" =>
    /\ ~detected.raised
    /\ \A n \in 1..Len(RISK_PATTERNS) :
         MatchesOf(n) # << >> => RisksOfType(RISK_PATTERNS[n].name) # {}

(***************************************************************************)
(* Properties of RewriteEngine._parse_rewrites, checked under SpecParse    *)
(***************************************************************************)
\* the text that follows each marker of the response
Segments == Tail(SplitMarkers(blob, 1))

\* C7: for every response and every requested count N >= 0, _parse_rewrites
\* returns exactly N entries: the recovered rewrites in order, cut to the first
\* N, and the placeholder in every trailing entry that has no rewrite.
C7_ExactlyExpected ==
  pc = "parsed" =>
    /\ Len(parsed) = expected
    /\ \A k \in 1..Len(parsed) :
         parsed[k] = IF k <= Len(RecoveredRewrites(blob))
                     THEN RecoveredRewrites(blob)[k]
                     ELSE Placeholder

\* two of three markers: three entries, the third the placeholder
C7_Witness ==
  /\ pc = "parsed"
  /\ expected = 3
  /\ Len(Segments) = 2
  /\ Len(parsed) = 3
  /\ parsed[2] # Placeholder
  /\ parsed[3] = Placeholder

\* C8: entry k of the result is the trimmed text that follows the k-th
\* marker, for every k up to the requested count and the number of markers.
C8_EntryFollowsMarker ==
  pc = "parsed" =>
    \A k \in 1..Min(expected, Len(Segments)) : parsed[k] = Strip(Segments[k])

(***************************************************************************)
(* Properties of RewriteEngine.rewrite_clauses, checked under SpecRewrite  *)
(***************************************************************************)
\* C6 as claimed: rewrite_clauses of an empty list returns an empty list and
\* makes no collaborator call, whether or not the collaborator is configured.
C6_EmptyGivesEmpty ==
  (pc = "rewritten" /\ clauses = << >>) =>
    /\ rewrites = List(<< >>)
    /\ calls = << >>

\* C6 as amended: rewrite_clauses of an empty list makes no collaborator
\* call; it returns an empty list when the collaborator is configured and
\* None when it is not.
C6_EmptyNoCall ==
  (pc = "rewritten" /\ clauses = << >>) =>
    /\ calls = << >>
    /\ rewrites = IF rewrite_model THEN List(<< >>) ELSE None

C6_Witness ==
  /\ pc = "rewritten"
  /\ clauses = << >>
  /\ rewrite_model
  /\ rewrites = List(<< >>)

(***************************************************************************)
(* Properties of SummaryEngine.generate_summary, checked under SpecSummary *)
(***************************************************************************)
TrimmedShort == Len(Strip(text)) < SummaryMinLen

\* C9 as claimed: for every text of trimmed length under 50 generate_summary
\* returns the too-short string and makes no collaborator call.
C9_ShortGivesTooShort ==
  (pc = "summarized" /\ TrimmedShort) =>
    /\ summary = TooShortAdvisory
    /\ calls = << >>

\* C9 as amended: for every text of trimmed length under 50 generate_summary
\* makes no collaborator call; it returns the too-short string when the
\* collaborator is configured and the not-configured advisory when it is not.
C9_ShortNoCall ==
  (pc = "summarized" /\ TrimmedShort) =>
    /\ calls = << >>
    /\ summary = IF summary_model THEN TooShortAdvisory ELSE NotConfiguredAdvisory

\* a configured engine and a text that is long enough only with its margins
C9_Witness ==
  /\ pc = "summarized"
  /\ summary_model
  /\ Len(Strip(text)) = SummaryMinLen - 1
  /\ Len(text) >= SummaryMinLen
  /\ summary = TooShortAdvisory

(***************************************************************************)
(* Properties of the handlers, checked under Spec                          *)
(***************************************************************************)
SummaryReturned ==
  \/ pc \in {"summarized", "rewritten", "persisted"}
  \/ pc = "done" /\ ~detected.raised

SummaryCalls == {k \in 1..Len(calls) : calls[k].to = "summary"}

\* a risk as the detector made it, without the rewrite the merge attached
Detected(r) == [f \in DOMAIN r \ {"suggested_rewrite"} |-> r[f]]

RewriteCalls == {k \in 1..Len(calls) : calls[k].to = "rewrite"}

DetectedClauses == [i \in 1..Len(detected.risks) |-> detected.risks[i].clause]

\* C11: in one request no collaborator is called before detection has run,
\* the summarization collaborator is called at most once, and the rewrite
\* collaborator is called at most once, only when risks were detected, with
\* the clause texts of all detected risks in result order; a failed call is
\* not repeated.
C11_OneCallEach ==
  /\ pc = "start" => calls = << >>
  /\ Cardinality(SummaryCalls) <= 1
  /\ Cardinality(RewriteCalls) <= 1
  /\ \A k \in RewriteCalls :
       /\ detected.risks # << >>
       /\ calls[k].clauses = DetectedClauses

\* a finished request with both calls made, the rewrite call a failed one
\* over several clauses
C11_Witness ==
  /\ pc = "done"
  /\ Cardinality(SummaryCalls) = 1
  /\ \E k \in RewriteCalls :
       /\ calls[k].outcome.kind = "raise"
       /\ Len(calls[k].clauses) > 1

AfterRewriting ==
  \/ pc \in {"rewritten", "persisted"}
  \/ pc = "done" /\ response.status = 200

\* the rewrite collaborator is unconfigured, or its call raised
RewriteUnavailable ==
  \/ ~rewrite_model
  \/ \E k \in RewriteCalls : calls[k].outcome.kind = "raise"

\* C12: when the rewrite collaborator is unconfigured or its call raises,
\* rewrite_clauses returns None, the risks stay as detected, with no
\* suggested_rewrite, and the request is answered as without the failure: no
\* answer of status 500 carries the failure reason, and the demo handler
\* answers 200 with the detected risks.
C12_RewriteUnavailable ==
  /\ (AfterRewriting /\ RewriteUnavailable) =>
       /\ rewrites = None
       /\ risks = detected.risks
  /\ (pc = "done" /\ response.status = 200 /\ RewriteUnavailable) =>
       response.risks = detected.risks
  /\ (pc = "done" /\ response.status = 500) => response.detail \notin FailureReasons
  /\ (pc = "done" /\ handler = "demo_analyze_text" /\ ~detected.raised) =>
       response.status = 200

\* a request answered with its risks after the rewrite call raised
C12_Witness ==
  /\ pc = "done"
  /\ response.status = 200
  /\ response.risks # << >>
  /\ rewrite_model
  /\ \E k \in RewriteCalls : calls[k].outcome.kind = "raise"

\* C13: after the merge risk i carries rewrite i for every i up to the number
\* of rewrites returned, and it is the risk whose clause was sent as clause i;
\* the risks beyond carry no rewrite; no other field of a risk is changed.
C13_MergeByIndex ==
  AfterRewriting =>
    /\ Len(risks) = Len(detected.risks)
    /\ \A i \in 1..Len(risks) :
         /\ Detected(risks[i]) = detected.risks[i]
         /\ IF i <= Len(rewrites.items)
            THEN /\ "suggested_rewrite" \in DOMAIN risks[i]
                 /\ risks[i].suggested_rewrite = rewrites.items[i]
                 /\ clauses[i] = risks[i].clause
            ELSE "suggested_rewrite" \notin DOMAIN risks[i]

\* several risks, each with a rewrite of its own
C13_Witness ==
  /\ pc = "done"
  /\ response.status = 200
  /\ Len(response.risks) > 1
  /\ \A i \in 1..Len(response.risks) :
       /\ "suggested_rewrite" \in DOMAIN response.risks[i]
       /\ response.risks[i].suggested_rewrite # Placeholder
  /\ response.risks[1].suggested_rewrite # response.risks[2].suggested_rewrite

\* C14: the result a handler returns carries the summary string that the
\* summarization step produced for the request.
C14_ResponseHasSummary ==
  (pc = "done" /\ response.status = 200) =>
    /\ "summary" \in DOMAIN response
    /\ response.summary = summary

\* C15: every request whose text is in hand is eventually answered, also
\* when a collaborator call never returns (the wait for a call is bounded).
C15_EventuallyAnswered == <>(pc = "done")

\* the clause analyze gives match m of pattern n in the text under analysis
ClauseOfMatch(n, m) ==
  MakeRisk(RISK_PATTERNS[n], text, Lower(text), SplitSentences(text), m).clause

\* C18: a match is discarded only when a risk of its category with its
\* clause text is in the result already: every match of every pattern has a
\* risk of its category and clause in the result, so a pattern that matched
\* has a risk, and two categories matching in one clause have a risk each.
C18_DiscardOnlyDuplicates ==
  Returned =>
    \A n \in 1..Len(RISK_PATTERNS) :
      /\ MatchesOf(n) # << >> => RisksOfType(RISK_PATTERNS[n].name) # {}
      /\ \A i \in 1..Len(MatchesOf(n)) :
           \E k \in RisksOfType(RISK_PATTERNS[n].name) :
             Risks[k].clause = ClauseOfMatch(n, MatchesOf(n)[i])

\* two risks of different categories with one clause text, and a pattern a
\* later match of which was discarded
C18_Witness ==
  /\ Returned
  /\ \E i, j \in 1..Len(Risks) :
       /\ Risks[i].risk_type # Risks[j].risk_type
       /\ Risks[i].clause = Risks[j].clause
  /\ \E n \in 1..Len(RISK_PATTERNS) :
       /\ RisksOfType(RISK_PATTERNS[n].name) # {}
       /\ Len(MatchesOf(n)) > Cardinality(RisksOfType(RISK_PATTERNS[n].name))

\* the sentence units of re.split(r'[.!?]\s+', text) as half-open spans of
\* offsets of the text
RECURSIVE SpansFrom(_, _)
SpansFrom(s, from) ==
  LET B == {i \in from..Len(s) : IsBoundary(s, i)}
  IN IF B = {} THEN << <<from - 1, Len(s)>> >>
     ELSE LET b == SetMin(B)
          IN << <<from - 1, b - 1>> >> \o SpansFrom(s, SkipSpace(s, b + 1))

SentenceSpans == SpansFrom(text, 1)

\* the sentence units that cover the offsets [a, b)
UnitsCovering(a, b) ==
  {k \in 1..Len(SentenceSpans) : SentenceSpans[k][1] <= a /\ b <= SentenceSpans[k][2]}

UnitText(k) == Strip(Slice(text, SentenceSpans[k][1], SentenceSpans[k][2]))

WindowAround(a, b) ==
  Strip(Slice(text, Max(0, a - ContextRadius), Min(Len(text), b + ContextRadius)))

\* C19: the clause of every returned risk is the sentence unit in which its
\* match lies or the window of radius 100 around its offsets, and one phrase
\* matched in two sentence units of different text gives two risks with
\* different clauses.
C19_ClauseOfOwnMatch ==
  Returned =>
    /\ \A k \in 1..Len(Risks) :
         LET a == Risks[k].start_position
             b == Risks[k].end_position
         IN \/ Risks[k].clause = WindowAround(a, b)
            \/ \E u \in UnitsCovering(a, b) : Risks[k].clause = UnitText(u)
    /\ \A n \in 1..Len(RISK_PATTERNS) :
         \A i, j \in 1..Len(MatchesOf(n)) :
           LET ma == MatchesOf(n)[i]
               mb == MatchesOf(n)[j]
           IN (/\ Slice(Lower(text), ma[1], ma[2]) = Slice(Lower(text), mb[1], mb[2])
               /\ \E u \in UnitsCovering(ma[1], ma[2]) :
                    \E v \in UnitsCovering(mb[1], mb[2]) : UnitText(u) # UnitText(v))
              => \E p, q \in RisksOfType(RISK_PATTERNS[n].name) :
                   /\ Risks[p].start_position = ma[1]
                   /\ Risks[q].start_position = mb[1]
                   /\ Risks[p].clause # Risks[q].clause

(***************************************************************************)
(* Properties of the upload handlers, checked under SpecUpload             *)
(***************************************************************************)
Finished(r) == requests[r].pc = "done"

PassesValidation(now) ==
  /\ now.filename # ""
  /\ now.content.size <= MaxUploadSize
  /\ Suffix(now.filename) \in AllowedTypes

\* what the handler answers a request that it serves alone, with the answers
\* the request got from the rewrite collaborator and from the commit
ServedAlone(now) ==
  IF now.filename = "" THEN Failed("400: No file provided")
  ELSE IF now.content.size > MaxUploadSize
  THEN Failed("413: File too large. Maximum size is 10MB")
  ELSE IF Suffix(now.filename) \notin AllowedTypes
  THEN Failed("422: Unsupported file type. Allowed types: .pdf, .docx, .txt")
  ELSE LET ex == extract_text(now.filename, now.content)
       IN IF ex.raised THEN Failed(ex.value)
          ELSE IF AnalyzedUploads[ex.value].raised THEN Failed(EncodeError)
          ELSE IF now.response.status = 500 /\ now.response.detail = CommitError
          THEN Failed(CommitError)
          ELSE [status |-> 200,
                document_name |-> now.filename,
                text_length |-> Len(ex.value),
                risks_found |-> Len(AnalyzedUploads[ex.value].risks),
                risks |-> Merge(AnalyzedUploads[ex.value].risks, now.rewrites),
                original_text |-> ex.value]

\* a response without the id the database assigned
WithoutId(resp) == [k \in DOMAIN resp \ {"analysis_id"} |-> resp[k]]

\* C16: however two concurrent requests interleave, also two uploads under
\* one filename, each is answered as it would be if it were served alone
\* (the id the database assigns aside); the file a request is about to read
\* is the one it wrote, and no file is left when both are answered.
C16_RequestsIndependent ==
  /\ \A r \in DOMAIN requests :
       /\ Finished(r) => WithoutId(requests[r].response) = ServedAlone(requests[r])
       /\ requests[r].pc \in {"written", "extracted"} =>
            files[requests[r].file_path] = requests[r].content
  /\ (\A r \in DOMAIN requests : Finished(r)) =>
       \A n \in DOMAIN files : files[n] = NoFile

\* an upload is answered with its own text while a second upload of another
\* body under the same filename is waiting in file.read()
C16_Witness ==
  \E r, o \in DOMAIN requests :
    /\ r # o
    /\ requests[r].filename = requests[o].filename
    /\ requests[r].content # requests[o].content
    /\ PassesValidation(requests[o])
    /\ requests[o].pc = "reading"
    /\ Finished(r)
    /\ requests[r].response.status = 200
    /\ requests[r].response.risks # << >>

\* C20: a request that validation rejects is answered with the status that
\* validation raised (400 without a filename, 413 over 10 MB, 422 for an
\* extension other than .pdf, .docx, .txt); 500 answers only a request that
\* passed validation.
C20_ValidationStatus ==
  \A r \in DOMAIN requests :
    Finished(r) =>
      LET now == requests[r]
      IN /\ now.filename = "" => now.response.status = 400
         /\ (now.filename # "" /\ now.content.size > MaxUploadSize) =>
              now.response.status = 413
         /\ (/\ now.filename # ""
             /\ now.content.size <= MaxUploadSize
             /\ Suffix(now.filename) \notin AllowedTypes) =>
              now.response.status = 422
         /\ now.response.status = 500 => PassesValidation(now)

\* C17: detection and the whole pipeline are deterministic: two runs on one
\* text with the same collaborator answers give the same result.  In this
\* model analyze, generate_summary, rewrite_clauses and the merge are
\* operators of their arguments, so the statement compares an operator with
\* itself; it is recorded without a formula.

====
